---- MODULE Spec2Model ----
(***************************************************************************)
(* The colour assignment engine of colors.js (window.Colors): the module   *)
(* state colorCache / availableColors and the four exported operations     *)
(* resetColorSystem, getColorForGroup, getColorCache, setColorForGroup.    *)
(*                                                                         *)
(* JavaScript strings are modelled as tuples of one-character strings, so  *)
(* that toLowerCase and includes are computed character by character.      *)
(* Colour tokens and other returned values are opaque TLA+ strings.        *)
(*                                                                         *)
(* Around the engine: the group selectors and the redraws of the scatter   *)
(* chart page (main.js, chart-renderer.js) and the shared data loader      *)
(* (shared-data-loader.js), and the retries of the line chart's updateChart *)
(* (example_main.js).                                                      *)
(***************************************************************************)
EXTENDS Integers, Sequences, FiniteSets, TLC

VARIABLES
    colorCache,       \* colors.js:30  own properties of the colorCache object
    availableColors,  \* colors.js:31
    lastCall,         \* observation: the last exported call and what it returned
    overridden,       \* observation: keys whose entry was last written by setColorForGroup
    returned,         \* observation: name -> value last returned by getColorForGroup
                      \*   since the last reset / setColorForGroup of that name
    twin,             \* a second engine, replaced by a freshly loaded one at every
                      \*   reset of the first and given the same calls since;
                      \*   erased: a reset has erased a non-empty cache
    page,             \* part_001:31-103  init() of the scatter chart page has run or not
    rows,             \* part_001:370-372 the value of the select of every .groupRow
    googleChartsReady,\* chart-renderer.js:8
    onLoadCallbacks,  \* chart-renderer.js:28 draws waiting for Google Charts
    SharedDataCache,  \* shared-data-loader.js:8-24
    promises,         \* shared-data-loader.js:57 the promises of loadDataFromSupabase()
    calls,            \* shared-data-loader.js:40 where every caller of loadSharedData is
    updateRetryCount, \* example_main.js:659 window.__updateRetryCount
    timeouts,         \* example_main.js:667 the setTimeout(updateChart, 75) timers pending
    selections,       \* example_main.js:652-655 what the selects of the line chart hold
    updateCalls,      \* the updateChart() calls made by listeners of the line chart so far
    lineChartsReady,  \* example_main.js:12 googleChartsReady of the line chart
    lineCallbacks     \* example_main.js:645 updateChart calls waiting for Google Charts

engineVars == <<colorCache, availableColors, lastCall, overridden, returned, twin>>
pageVars == <<page, rows, googleChartsReady, onLoadCallbacks>>
loaderVars == <<SharedDataCache, promises, calls>>
lineVars ==
    <<updateRetryCount, timeouts, selections, updateCalls, lineChartsReady, lineCallbacks>>

vars == <<engineVars, pageVars, loaderVars, lineVars>>

-----------------------------------------------------------------------------
(* Bounds of the model *)

\* largest number of selected groups of one line chart update
MaxGroups == 11
\* number of names given a colour in the runs of the first calls (SpecFirst)
MaxFirst == 2
\* largest number of group ids in the group_ids parameter of the page URL
MaxUrlGroups == 11
\* largest number of draws waiting for Google Charts to load
MaxDeferred == 2
\* largest number of group rows left on "Select group"
MaxPlaceholders == 1
\* largest number of loadDataFromSupabase() calls
MaxFetches == 2
\* largest number of updateChart() calls made by the listeners of the line chart
MaxUpdateCalls == 2

-----------------------------------------------------------------------------
(* Values *)

\* colors.js:7-18
distinctPalette ==
    << "#E6194B", "#3CB44B", "#FFE119", "#4363D8", "#F58231",
       "#911EB4", "#46F0F0", "#F032E6", "#BCF60C", "#FABEBE" >>

\* distinctPalette[i] with the 0-based index of the source
PaletteAt(i) == distinctPalette[i + 1]

PaletteColors == { distinctPalette[i] : i \in 1..Len(distinctPalette) }

\* colors.js:21-27, keys in declaration order (the order of Object.keys)
categoryKeys ==
    << <<"e","c","o","d","e","s","i","g","n">>,
       <<"f","i","r","e","p","l","a","c","e">>,
       <<"g","a","s">>,
       <<"p","o","w","e","r">>,
       <<"r","o","a","d">> >>

\* colors.js:22-26, the palette index each key designates
categoryBaseColor == << PaletteAt(4), PaletteAt(0), PaletteAt(3), PaletteAt(1), PaletteAt(6) >>

\* colors.js:47
SentinelColor == "#888888"

\* the JavaScript value undefined, as a returned value / missing property
undefinedValue == "undefined"

\* the JavaScript value undefined passed as a name (no string has this shape)
undefinedName == << "undefined" >>

\* the property key undefined converts to in colorCache[name]
undefinedKey == <<"u","n","d","e","f","i","n","e","d">>

emptyName == << >>

\* A property every plain object inherits from Object.prototype:
\* colorCache[name] finds it although it is no own property.
protoKey == <<"_","_","p","r","o","t","o","_","_">>

InheritedValue(key) ==
    IF key = protoKey THEN "[object Object.prototype]" ELSE undefinedValue

\* Names with a category key
PowerStationA == <<"P","o","w","e","r"," ","S","t","a","t","i","o","n"," ","A">>
PowerStationB == <<"P","o","w","e","r"," ","S","t","a","t","i","o","n"," ","B">>
GasBoilers    == <<"G","a","s"," ","B","o","i","l","e","r","s">>
EcodesignUpper == <<"E","C","O","D","E","S","I","G","N"," ","S","t","o","v","e">>
EcodesignLower == <<"e","c","o","d","e","s","i","g","n"," ","s","t","o","v","e">>
RoadGas       == <<"R","o","a","d"," ","G","a","s">>
Fireplace     == <<"F","i","r","e","p","l","a","c","e">>

\* the names with a category key that are passed in long runs
CategoryNames == { PowerStationA, PowerStationB }

DigitChars == << "0", "1", "2", "3", "4", "5", "6", "7", "8", "9" >>

\* the decimal numeral of i, 1 <= i <= 99
Numeral(i) ==
    IF i < 10 THEN << DigitChars[i + 1] >>
    ELSE << DigitChars[(i \div 10) + 1], DigitChars[(i % 10) + 1] >>

\* a series name without category key
SeriesX == << "X" >>

\* the i-th selected group of the line chart: "Group 1", "Group 2", ...
Group(i) == << "G", "r", "o", "u", "p", " " >> \o Numeral(i)

\* the first k groups, in the order the user selected them
SelectedGroups(k) == [ i \in 1..k |-> Group(i) ]

\* non-empty names the callers pass one call at a time
NonEmptyNames == CategoryNames \cup { SeriesX, protoKey }

\* all names the callers pass
Names == NonEmptyNames \cup { emptyName, undefinedName }

\* names passed in the runs of the first calls
FirstNames ==
    { PowerStationA, PowerStationB, GasBoilers, EcodesignUpper, EcodesignLower,
      RoadGas, Fireplace, SeriesX, protoKey, emptyName }

\* names passed to setColorForGroup
OverrideNames == { SeriesX, protoKey, emptyName }

\* colours passed to setColorForGroup: one outside the palette, one of the palette
OverrideColors == { "#123456", PaletteAt(1) }

\* numbers of selected groups of a line chart update: charts that use the
\* palette up to its end and beyond
GroupCounts == (Len(distinctPalette) - 1)..MaxGroups

-----------------------------------------------------------------------------
(* JavaScript primitives used by colors.js *)

UpperCase == << "A","B","C","D","E","F","G","H","I","J","K","L","M",
                "N","O","P","Q","R","S","T","U","V","W","X","Y","Z" >>
LowerCase == << "a","b","c","d","e","f","g","h","i","j","k","l","m",
                "n","o","p","q","r","s","t","u","v","w","x","y","z" >>

\* String.prototype.toLowerCase
toLowerCase(s) ==
    [ i \in 1..Len(s) |->
        IF \E k \in 1..Len(UpperCase) : UpperCase[k] = s[i]
        THEN LowerCase[CHOOSE k \in 1..Len(UpperCase) : UpperCase[k] = s[i]]
        ELSE s[i] ]

\* String.prototype.includes
includes(s, c) ==
    \E i \in 0..(Len(s) - Len(c)) : SubSeq(s, i + 1, i + Len(c)) = c

\* !name (colors.js:47): the empty string and undefined are falsy
IsFalsyName(name) == name = emptyName \/ name = undefinedName

\* truthiness of a stored / returned value
IsTruthy(v) == v # undefinedValue /\ v # ""

\* a variant of ToPropertyKey that folds the case of the key
ToPropertyKeyLowerCase(name) ==
    IF name = undefinedName THEN undefinedKey ELSE toLowerCase(name)

\* the property key of colorCache[name]
ToPropertyKey(name) == IF name = undefinedName THEN undefinedKey ELSE name

\* colorCache[name] read: own property, else inherited, else undefined
ReadProperty(cache, name) ==
    LET key == ToPropertyKey(name)
    IN  IF key \in DOMAIN cache THEN cache[key] ELSE InheritedValue(key)

\* colorCache[name] = v: assigning a string to __proto__ is ignored by the
\* Object.prototype setter; any other key becomes an own property
WriteProperty(cache, name, v) ==
    LET key == ToPropertyKey(name)
    IN  IF key = protoKey THEN cache
        ELSE [ k \in (DOMAIN cache) \cup {key} |-> IF k = key THEN v ELSE cache[k] ]

\* Object.values(colorCache)
ObjectValues(cache) == { cache[k] : k \in DOMAIN cache }

\* Object.keys(colorCache).length
KeyCount(cache) == Cardinality(DOMAIN cache)

EmptyCache == [ k \in {} |-> undefinedValue ]

-----------------------------------------------------------------------------
(* getColorForGroup, colors.js:46-69 *)

\* a variant of BaseColor that matches the name as given, without toLowerCase
BaseColorCaseSensitive(name) ==
    LET hits == { k \in 1..Len(categoryKeys) : includes(name, categoryKeys[k]) }
    IN  IF hits = {} THEN undefinedValue
        ELSE categoryBaseColor[CHOOSE k \in hits : \A j \in hits : k <= j]

\* a variant of BaseColor that takes the last category key contained in the
\* lowercased name
BaseColorLastKey(name) ==
    LET lower == toLowerCase(name)
        hits  == { k \in 1..Len(categoryKeys) : includes(lower, categoryKeys[k]) }
    IN  IF hits = {} THEN undefinedValue
        ELSE categoryBaseColor[CHOOSE k \in hits : \A j \in hits : k >= j]

\* colors.js:50-54: the colour of the first category key contained in the
\* lowercased name, or undefined (null in the source)
BaseColor(name) ==
    LET lower == toLowerCase(name)
        hits  == { k \in 1..Len(categoryKeys) : includes(lower, categoryKeys[k]) }
    IN  IF hits = {} THEN undefinedValue
        ELSE categoryBaseColor[CHOOSE k \in hits : \A j \in hits : k <= j]

\* a variant of FirstAvailable whose test is always true: find(c => true)
FirstAvailableIgnoresCache(cache, avail) ==
    IF Len(avail) = 0 THEN undefinedValue ELSE avail[1]

\* a variant of FirstAvailable with the negation of the test left out
FirstAvailableInverted(cache, avail) ==
    LET used == { i \in 1..Len(avail) : avail[i] \in ObjectValues(cache) }
    IN  IF used = {} THEN undefinedValue
        ELSE avail[CHOOSE i \in used : \A j \in used : i <= j]

\* colors.js:59: availableColors.find(c => !Object.values(colorCache).includes(c))
FirstAvailable(cache, avail) ==
    LET free == { i \in 1..Len(avail) : avail[i] \notin ObjectValues(cache) }
    IN  IF free = {} THEN undefinedValue
        ELSE avail[CHOOSE i \in free : \A j \in free : i <= j]

\* a variant of ExhaustedColor without the modulo: an index past the end of
\* the array reads undefined
ExhaustedColorNoModulo(cache) ==
    IF KeyCount(cache) < Len(distinctPalette) THEN PaletteAt(KeyCount(cache))
    ELSE undefinedValue

\* a variant of the wraparound that counts the entry about to be stored
ExhaustedColorNextIndex(cache) ==
    PaletteAt((KeyCount(cache) + 1) % Len(distinctPalette))

\* colors.js:64
ExhaustedColor(cache) == PaletteAt(KeyCount(cache) % Len(distinctPalette))

\* a variant of ChosenColor that tests only !chosenColor at line 58
ChosenColorNoDupCheck(cache, avail, name) ==
    LET baseColor == BaseColor(name)
        afterDup  == IF ~IsTruthy(baseColor)
                     THEN FirstAvailable(cache, avail)
                     ELSE baseColor
    IN  IF ~IsTruthy(afterDup) THEN ExhaustedColor(cache) ELSE afterDup

\* colors.js:54-65: the colour chosen for a name that has no truthy entry
ChosenColor(cache, avail, name) ==
    LET baseColor == BaseColor(name)
        afterDup  == IF ~IsTruthy(baseColor) \/ baseColor \in ObjectValues(cache)
                     THEN FirstAvailable(cache, avail)
                     ELSE baseColor
    IN  IF ~IsTruthy(afterDup) THEN ExhaustedColor(cache) ELSE afterDup

\* a variant of GetColor without the cache lookup of line 48
GetColorNoCacheCheck(cache, avail, name) ==
    IF IsFalsyName(name) THEN [ ret |-> SentinelColor, cache |-> cache ]
    ELSE LET chosenColor == ChosenColor(cache, avail, name)
         IN  [ ret |-> chosenColor, cache |-> WriteProperty(cache, name, chosenColor) ]

\* a variant of GetColor without the test of line 47
GetColorNoFalsyCheck(cache, avail, name) ==
    IF IsTruthy(ReadProperty(cache, name))
    THEN [ ret |-> ReadProperty(cache, name), cache |-> cache ]
    ELSE LET chosenColor == ChosenColor(cache, avail, name)
         IN  [ ret |-> chosenColor, cache |-> WriteProperty(cache, name, chosenColor) ]

\* colors.js:46-69 as a function of the state: the value returned and the cache left
GetColor(cache, avail, name) ==
    IF IsFalsyName(name) THEN [ ret |-> SentinelColor, cache |-> cache ]
    ELSE IF IsTruthy(ReadProperty(cache, name))
         THEN [ ret |-> ReadProperty(cache, name), cache |-> cache ]
    ELSE LET chosenColor == ChosenColor(cache, avail, name)
         IN  [ ret |-> chosenColor, cache |-> WriteProperty(cache, name, chosenColor) ]

\* selectedGroups.map(g => window.Colors.getColorForGroup(g)), example_main.js:699:
\* the cache left by the calls for names[1..i]
RECURSIVE CacheAfter(_, _, _, _)
CacheAfter(cache, avail, names, i) ==
    IF i = 0 THEN cache
    ELSE GetColor(CacheAfter(cache, avail, names, i - 1), avail, names[i]).cache

\* the array of colours that map returns
MapGetColor(cache, avail, names) ==
    [ i \in 1..Len(names) |->
        GetColor(CacheAfter(cache, avail, names, i - 1), avail, names[i]).ret ]

\* a variant of SetColor that keeps an entry that exists
SetColorIfAbsent(cache, name, color) ==
    IF IsTruthy(ReadProperty(cache, name)) THEN cache ELSE WriteProperty(cache, name, color)

\* colors.js:84-86
SetColor(cache, name, color) == WriteProperty(cache, name, color)

\* colors.js:37
ResetCache == EmptyCache

\* colors.js:75-77: { ...colorCache }, a copy of the own properties
CacheSnapshot(cache) == [ k \in DOMAIN cache |-> cache[k] ]

-----------------------------------------------------------------------------
(* The engine and its callers *)

\* the module state when the script has just been loaded, colors.js:30-31
FreshEngine == [ cache |-> EmptyCache, avail |-> distinctPalette ]

\* the record of a call: op, its arguments, the value it returned; for
\* resetColorSystem also what it erased (number of entries, of overrides)
Call(op, name, color, ret) ==
    [ op |-> op, name |-> name, color |-> color, ret |-> ret, size |-> 0, forced |-> 0 ]

NoCall == Call("none", emptyName, undefinedValue, undefinedValue)

\* loadPromise: null, shared-data-loader.js:11; a promise is the index of its
\* state in promises
NoPromise == 0

\* the pages that call loadSharedData
Callers == { "linechart", "scatterchart", "other" }

\* the scatter chart page before init() has run, part_001:22-26 and
\* chart-renderer.js:5-8
PageInit ==
    /\ page = "loading"
    /\ rows = << >>
    /\ googleChartsReady = FALSE
    /\ onLoadCallbacks = << >>

\* window.SharedDataCache as created, shared-data-loader.js:8-24
LoaderInit ==
    /\ SharedDataCache = [ isLoaded |-> FALSE, isLoading |-> FALSE,
                           loadPromise |-> NoPromise, data |-> "empty" ]
    /\ promises = << >>
    /\ calls = [ c \in Callers |-> [ pc |-> "idle", promise |-> NoPromise ] ]

\* the selects of the line chart hold nothing: no pollutant, no year, no group
NothingSelected == [ pollutant |-> FALSE, startYear |-> FALSE, endYear |-> FALSE, groups |-> 0 ]

\* the line chart page as loaded, example_main.js:12; window.__updateRetryCount
\* is not set, which line 659 reads as 0
LineInit ==
    /\ updateRetryCount = 0
    /\ timeouts = 0
    /\ selections = NothingSelected
    /\ updateCalls = 0
    /\ lineChartsReady = FALSE
    /\ lineCallbacks = 0

Init ==
    /\ colorCache = FreshEngine.cache
    /\ availableColors = FreshEngine.avail
    /\ lastCall = NoCall
    /\ overridden = {}
    /\ returned = EmptyCache
    /\ twin = [ cache |-> FreshEngine.cache, avail |-> FreshEngine.avail,
                ret |-> undefinedValue, erased |-> FALSE ]
    /\ PageInit
    /\ LoaderInit
    /\ LineInit

\* a variant of resetColorSystem that restores availableColors only
resetKeepsCache ==
    /\ availableColors' = distinctPalette
    /\ lastCall' = [ Call("reset", emptyName, undefinedValue, undefinedValue)
                       EXCEPT !.size = KeyCount(colorCache),
                              !.forced = Cardinality(overridden) ]
    /\ twin' = [ cache |-> FreshEngine.cache, avail |-> FreshEngine.avail,
                 ret |-> undefinedValue,
                 erased |-> (twin.erased \/ colorCache # EmptyCache) ]
    /\ UNCHANGED <<colorCache, overridden, returned>>
    /\ UNCHANGED <<pageVars, loaderVars, lineVars>>

\* resetColorSystem(), colors.js:36-39
resetColorSystem ==
    /\ colorCache' = ResetCache
    /\ availableColors' = distinctPalette
    /\ lastCall' = [ Call("reset", emptyName, undefinedValue, undefinedValue)
                       EXCEPT !.size = KeyCount(colorCache),
                              !.forced = Cardinality(overridden) ]
    /\ overridden' = {}
    /\ returned' = EmptyCache
    /\ twin' = [ cache |-> FreshEngine.cache, avail |-> FreshEngine.avail,
                 ret |-> undefinedValue,
                 erased |-> (twin.erased \/ colorCache # EmptyCache) ]
    /\ UNCHANGED <<pageVars, loaderVars, lineVars>>

\* a variant of getColorForGroup that takes the colour it stores out of
\* availableColors
getColorForGroupConsumes(name) ==
    LET r == GetColor(colorCache, availableColors, name)
        t == GetColor(twin.cache, twin.avail, name)
    IN  /\ colorCache' = r.cache
        /\ lastCall' = Call("get", name, undefinedValue, r.ret)
        /\ overridden' = IF r.cache # colorCache
                         THEN overridden \ { ToPropertyKey(name) } ELSE overridden
        /\ returned' = IF IsFalsyName(name) THEN returned
                       ELSE [ n \in (DOMAIN returned) \cup {name} |->
                                IF n = name THEN r.ret ELSE returned[n] ]
        /\ twin' = [ twin EXCEPT !.cache = t.cache, !.ret = t.ret ]
        /\ availableColors' = IF r.cache # colorCache
                              THEN SelectSeq(availableColors, LAMBDA c : c # r.ret)
                              ELSE availableColors
        /\ UNCHANGED <<pageVars, loaderVars, lineVars>>

\* getColorForGroup(name), colors.js:46-69
getColorForGroup(name) ==
    LET r == GetColor(colorCache, availableColors, name)
        t == GetColor(twin.cache, twin.avail, name)
    IN  /\ colorCache' = r.cache
        /\ lastCall' = Call("get", name, undefinedValue, r.ret)
        /\ overridden' = IF r.cache # colorCache
                         THEN overridden \ { ToPropertyKey(name) } ELSE overridden
        /\ returned' = IF IsFalsyName(name) THEN returned
                       ELSE [ n \in (DOMAIN returned) \cup {name} |->
                                IF n = name THEN r.ret ELSE returned[n] ]
        /\ twin' = [ twin EXCEPT !.cache = t.cache, !.ret = t.ret ]
        /\ UNCHANGED availableColors
        /\ UNCHANGED <<pageVars, loaderVars, lineVars>>

\* What the line chart's updateChart does to an engine in state (cache, avail)
\* when the first k groups are selected, example_main.js:699:
\* getColorForGroup for every selected group in order.
ChartColorsFrom(cache, avail) ==
    [ k \in 1..MaxGroups |->
        [ colors |-> MapGetColor(cache, avail, SelectedGroups(k)),
          cache  |-> CacheAfter(cache, avail, SelectedGroups(k), k) ] ]

\* example_main.js:691-699: the engine has just been reset when the colours
\* are assigned, so the outcome does not depend on the state before and is
\* tabulated once per k
ChartColors == ChartColorsFrom(ResetCache, distinctPalette)

\* the same on a freshly loaded engine
FreshChartColors == ChartColorsFrom(FreshEngine.cache, FreshEngine.avail)

\* what updateChart() of the line chart does to the engine with the first k
\* groups selected, example_main.js:691-699
DrawLineChart(k) ==
    /\ colorCache' = ChartColors[k].cache
    /\ availableColors' = distinctPalette
    /\ lastCall' = Call("updateChart", emptyName, undefinedValue, ChartColors[k].colors)
    /\ overridden' = {}
    /\ returned' = [ n \in { Group(i) : i \in 1..k } |->
                       ChartColors[k].colors[CHOOSE i \in 1..k : Group(i) = n] ]
    /\ twin' = [ cache |-> FreshChartColors[k].cache, avail |-> FreshEngine.avail,
                 ret |-> FreshChartColors[k].colors,
                 erased |-> (twin.erased \/ colorCache # EmptyCache) ]

\* updateChart() of the line chart when Google Charts is loaded and the
\* selections are ready, example_main.js:676-699
updateChart(k) ==
    /\ DrawLineChart(k)
    /\ updateRetryCount' = 0
    /\ UNCHANGED <<timeouts, selections, updateCalls, lineChartsReady, lineCallbacks>>
    /\ UNCHANGED <<pageVars, loaderVars>>

\* getColorCache(), colors.js:75-77
getColorCache ==
    /\ lastCall' = Call("cache", emptyName, undefinedValue, CacheSnapshot(colorCache))
    /\ twin' = [ twin EXCEPT !.ret = CacheSnapshot(twin.cache) ]
    /\ UNCHANGED <<colorCache, availableColors, overridden, returned>>
    /\ UNCHANGED <<pageVars, loaderVars, lineVars>>

\* setColorForGroup(name, color), colors.js:84-86
setColorForGroup(name, color) ==
    /\ colorCache' = SetColor(colorCache, name, color)
    /\ lastCall' = Call("set", name, color, undefinedValue)
    /\ overridden' = IF ToPropertyKey(name) \in DOMAIN colorCache'
                     THEN overridden \cup { ToPropertyKey(name) } ELSE overridden
    /\ returned' = [ n \in (DOMAIN returned) \ { name } |-> returned[n] ]
    /\ twin' = [ twin EXCEPT !.cache = SetColor(twin.cache, name, color),
                             !.ret = undefinedValue ]
    /\ UNCHANGED availableColors
    /\ UNCHANGED <<pageVars, loaderVars, lineVars>>

Next ==
    \/ resetColorSystem
    \/ \E name \in Names : getColorForGroup(name)
    \/ getColorCache
    \/ \E k \in GroupCounts : updateChart(k)
    \/ \E name \in OverrideNames, color \in OverrideColors : setColorForGroup(name, color)

Spec == Init /\ [][Next]_vars

-----------------------------------------------------------------------------
(* The first calls on an engine: at most MaxFirst names, drawn from a *)
(* larger set of names, are given a colour after a start or a reset   *)

firstGetColorForGroup(name) ==
    /\ KeyCount(colorCache) < MaxFirst
    /\ getColorForGroup(name)

FirstNext ==
    \/ resetColorSystem
    \/ \E name \in FirstNames : firstGetColorForGroup(name)
    \/ getColorCache

SpecFirst == Init /\ [][FirstNext]_vars

-----------------------------------------------------------------------------
(* The line chart drawn for a selection that is not the first k groups: *)
(* a head name, the groups 2..k-1, a tail name                          *)

\* the names a selection starts with
ChartHeads == { Group(1), PowerStationA, Fireplace, protoKey }

\* the names a selection of k groups ends with
ChartTails(k) == { Group(k), PowerStationB, GasBoilers }

\* selectedGroups of example_main.js:699 for such a selection
Selection(h, k, t) == <<h>> \o [ i \in 1..(k - 2) |-> Group(i + 1) ] \o <<t>>

ChartSelections ==
    UNION { { Selection(h, k, t) : h \in ChartHeads, t \in ChartTails(k) } : k \in GroupCounts }

\* example_main.js:691-699 for every selection: the engine has just been
\* reset, getColorForGroup is called for every selected group in order
SelectionColors ==
    [ groups \in ChartSelections |->
        [ colors |-> MapGetColor(ResetCache, distinctPalette, groups),
          cache  |-> CacheAfter(ResetCache, distinctPalette, groups, Len(groups)) ] ]

\* updateChart() of the line chart with the selection groups,
\* example_main.js:691-699
updateChartSelection(groups) ==
    /\ colorCache' = SelectionColors[groups].cache
    /\ availableColors' = distinctPalette
    /\ lastCall' = Call("updateChart", emptyName, undefinedValue, SelectionColors[groups].colors)
    /\ overridden' = {}
    /\ returned' = [ n \in { groups[i] : i \in 1..Len(groups) } |->
                       SelectionColors[groups].colors[CHOOSE i \in 1..Len(groups) : groups[i] = n] ]
    /\ twin' = [ cache |-> SelectionColors[groups].cache, avail |-> FreshEngine.avail,
                 ret |-> SelectionColors[groups].colors,
                 erased |-> (twin.erased \/ colorCache # EmptyCache) ]
    /\ UNCHANGED <<pageVars, loaderVars, lineVars>>

ChartNext ==
    \/ resetColorSystem
    \/ \E groups \in ChartSelections : updateChartSelection(groups)
    \/ \E name \in NonEmptyNames : getColorForGroup(name)
    \/ getColorCache

SpecChart == Init /\ [][ChartNext]_vars

-----------------------------------------------------------------------------
(* A caller that keeps the object getColorCache() returned and changes it *)

\* the object held in the module variable colorCache, colors.js:30
LiveObject == "colorCache"

\* an object made by an object literal
NewObject == "copy"

\* a variant of getColorCache that returns colorCache itself
ReturnedObjectLive == LiveObject

\* colors.js:76: { ...colorCache } is a new object
ReturnedObject == NewObject

\* the keys and values the caller writes into the object it holds
ReturnedKeys == { PowerStationA, SeriesX }

\* the caller holds the object of the last getColorCache() call
HoldsReturned == lastCall.op \in { "cache", "mutate" }

\* what a write through the reference the caller holds does to colorCache:
\* the write lands in the object referred to
ThroughReference(cache, changed) ==
    IF ReturnedObject = LiveObject THEN changed ELSE cache

\* returnedCache[key] = color, by the caller of getColorCache, colors.js:75-77
writeReturned(key, color) ==
    /\ HoldsReturned
    /\ lastCall' = Call("mutate", key, color, WriteProperty(lastCall.ret, key, color))
    /\ colorCache' = ThroughReference(colorCache, WriteProperty(colorCache, key, color))
    /\ UNCHANGED <<availableColors, overridden, returned, twin>>
    /\ UNCHANGED <<pageVars, loaderVars, lineVars>>

\* delete returnedCache[key], by the caller of getColorCache, colors.js:75-77
deleteReturned(key) ==
    /\ HoldsReturned
    /\ key \in DOMAIN lastCall.ret
    /\ lastCall' = Call("mutate", key, undefinedValue,
                        [ k \in (DOMAIN lastCall.ret) \ { key } |-> lastCall.ret[k] ])
    /\ colorCache' = ThroughReference(colorCache,
                        [ k \in (DOMAIN colorCache) \ { key } |-> colorCache[k] ])
    /\ UNCHANGED <<availableColors, overridden, returned, twin>>
    /\ UNCHANGED <<pageVars, loaderVars, lineVars>>

SnapshotNext ==
    \/ resetColorSystem
    \/ \E name \in NonEmptyNames : getColorForGroup(name)
    \/ getColorCache
    \/ \E key \in ReturnedKeys, color \in OverrideColors : writeReturned(key, color)
    \/ \E key \in ReturnedKeys : deleteReturned(key)

SpecSnapshot == Init /\ [][SnapshotNext]_vars

-----------------------------------------------------------------------------
(* The scatter chart page: group selectors and redraws, main.js          *)
(* (part_001) and chart-renderer.js                                      *)

\* the number of rows at which refreshButtons disables "Add Group"
AddButtonLimit == 10

\* 'Ecodesign Stove - Ready To Burn', part_001:241
EcodesignReadyToBurn ==
    << "E","c","o","d","e","s","i","g","n"," ","S","t","o","v","e"," ","-"," ",
       "R","e","a","d","y"," ","T","o"," ","B","u","r","n" >>

\* 'gas boilers', part_001:247
GasBoilersKey == <<"g","a","s"," ","b","o","i","l","e","r","s">>

\* window.supabaseModule.allGroups: the title of every group of the
\* database, at the index that is its id
allGroups ==
    [ i \in 1..MaxUrlGroups |-> Group(i) ] \o << EcodesignReadyToBurn, GasBoilers >>

\* window.allGroupsList, part_001:65-73: the distinct titles; the page only
\* filters this list and offers it in the selects
allGroupsList == allGroups

\* allGroups.find(g => g.group_title === name).id, part_001:674-678
GroupId(name) ==
    CHOOSE id \in 1..Len(allGroups) :
        /\ allGroups[id] = name
        /\ \A j \in 1..(id - 1) : allGroups[j] # name

\* allGroups.find(g => g.id === groupId).group_title, supabase.js:224-227
GroupTitle(id) == allGroups[id]

\* getSelectedGroups(), part_001:370-381: the values of the selects, the
\* empty ones dropped
SelectedOf(rs) == SelectSeq(rs, LAMBDA v : v # emptyName)

\* selectedGroupIds of drawChart, part_001:672-679: every title is found
SelectedIds(rs) == [ i \in 1..Len(SelectedOf(rs)) |-> GroupId(SelectedOf(rs)[i]) ]

\* getScatterData, supabase.js:201-236: one data point per group id, in
\* order; every group has values in the selected year
DataPointNames(groupIds) == [ i \in 1..Len(groupIds) |-> GroupTitle(groupIds[i]) ]

\* the groups of the page without group_ids in the URL, part_001:232-265
DefaultGroups ==
    LET ecodesignGroups == SelectSeq(allGroupsList, LAMBDA g : g = EcodesignReadyToBurn)
        gasBoilerGroups == SelectSeq(allGroupsList,
                                     LAMBDA g : includes(toLowerCase(g), GasBoilersKey))
    IN  (IF ecodesignGroups # << >> THEN << ecodesignGroups[1] >> ELSE << >>)
        \o (IF gasBoilerGroups # << >> THEN << gasBoilerGroups[1] >> ELSE << >>)
        \o (IF ecodesignGroups = << >> /\ gasBoilerGroups = << >>
            THEN SubSeq(allGroupsList, 1, IF Len(allGroupsList) > 1 THEN 2 ELSE Len(allGroupsList))
            ELSE << >>)

\* params.groupNames of parseUrlParameters, part_001:296-326: no group_ids,
\* or the ids of the first k groups
UrlSelections == { << >> } \cup { SelectedGroups(k) : k \in 1..MaxUrlGroups }

\* the engine with what is observed of it
Engine == [ cache |-> colorCache, returned |-> returned, twin |-> twin ]

\* resetColorSystem() on e, colors.js:36-39
ResetOf(e) ==
    [ cache |-> ResetCache, returned |-> EmptyCache,
      twin |-> [ cache |-> FreshEngine.cache, avail |-> FreshEngine.avail,
                 ret |-> undefinedValue,
                 erased |-> (e.twin.erased \/ e.cache # EmptyCache) ] ]

\* getColorForGroup for every name of names in order, on e: the engine left
\* and, in colors, the array of the colours the calls returned
LookupsOf(e, names) ==
    CHOOSE l \in
        { [ cache |-> after,
            colors |-> MapGetColor(e.cache, availableColors, names),
            returned |->
              [ n \in (DOMAIN e.returned) \cup { names[i] : i \in 1..Len(names) } |->
                  IF \E i \in 1..Len(names) : names[i] = n
                  THEN ReadProperty(after, n) ELSE e.returned[n] ],
            twin |-> [ e.twin EXCEPT
                         !.cache = twinAfter,
                         !.ret = [ i \in 1..Len(names) |->
                                     IF IsFalsyName(names[i]) THEN SentinelColor
                                     ELSE ReadProperty(twinAfter, names[i]) ] ] ] :
            after \in { CacheAfter(e.cache, availableColors, names, Len(names)) },
            twinAfter \in { CacheAfter(e.twin.cache, e.twin.avail, names, Len(names)) } } :
        TRUE

SetEngine(e) ==
    /\ colorCache' = e.cache
    /\ returned' = e.returned
    /\ twin' = e.twin
    /\ UNCHANGED <<availableColors, overridden>>

\* the first line of a tooltip: tooltip.split('\n')[0], chart-renderer.js:277;
\* the tooltip starts with the group name and a line break (line 59), and no
\* group title holds a line break
TooltipGroupName(groupName) == groupName

\* the names createCustomLegend looks up, chart-renderer.js:276-288: for
\* every index of groupIds, the group name of the tooltip of the data row
\* at that index
LegendNames(groupIds) ==
    [ index \in 1..Len(groupIds) |-> TooltipGroupName(DataPointNames(groupIds)[index]) ]

\* drawScatterChart(year, pollutantId, groupIds), chart-renderer.js:24-250,
\* called on the engine e with the draws in waiting: before Google Charts is
\* ready the draw is registered to run on load; else every data point's
\* group is given its colour (line 56) and, after chart.draw, createCustomLegend
\* looks the colour of every legend item up (lines 214 and 288). A draw
\* records in ret the colours of the points, in color those of the legend
\* and in size the number of entries the cache held at its first lookup.
drawScatterChart(e, groupIds, waiting) ==
    IF ~googleChartsReady'
    THEN /\ onLoadCallbacks' = Append(waiting, groupIds)
         /\ SetEngine(e)
         /\ lastCall' = Call("deferred", emptyName, undefinedValue, undefinedValue)
    ELSE \E l \in { LookupsOf(e, DataPointNames(groupIds)) } :
         \E legend \in { LookupsOf(l, LegendNames(groupIds)) } :
         /\ onLoadCallbacks' = waiting
         /\ SetEngine(legend)
         /\ lastCall' = [ Call("draw", emptyName, legend.colors, l.colors)
                            EXCEPT !.size = KeyCount(e.cache) ]

\* drawChart(), part_001:645-699, with the rows rs, on the engine e; a year
\* and a pollutant are selected
drawChart(e, rs) ==
    IF SelectedOf(rs) = << >>
    THEN /\ SetEngine(e)
         /\ lastCall' = Call("message", emptyName, undefinedValue, undefinedValue)
         /\ UNCHANGED onLoadCallbacks
    ELSE \E r \in { ResetOf(e) } :
            drawScatterChart(r, SelectedIds(rs), onLoadCallbacks)

\* updateChart() of the scatter chart, part_001:593-607, with the rows rs
scatterUpdateChart(rs) ==
    \E r \in { ResetOf(Engine) } :
        \E l \in { LookupsOf(r, SelectedOf(rs)) } : drawChart(l, rs)

\* a redraw can be taken: it draws at once or there is room to wait
CanDraw == googleChartsReady \/ Len(onLoadCallbacks) < MaxDeferred

\* the page takes events: init() is through, and the draws registered with
\* setOnLoadCallback have run if Google Charts has loaded
Interactive == page = "ready" /\ ~(googleChartsReady /\ onLoadCallbacks # << >>)

\* init(), part_001:31-103: setupGroupSelector, renderInitialView with the
\* groups of the URL or the default ones, revealMainContent and its drawChart
init(groupNames) ==
    /\ page = "loading"
    /\ page' = "ready"
    /\ rows' = IF groupNames # << >> THEN groupNames ELSE DefaultGroups
    /\ UNCHANGED googleChartsReady
    /\ \E e \in { Engine } : drawChart(e, rows')
    /\ UNCHANGED <<loaderVars, lineVars>>

\* the titles the select of row i offers, part_001:459-484: the groups
\* selected in no other row
Offered(i) ==
    { allGroupsList[j] : j \in 1..Len(allGroupsList) } \
        { rows[k] : k \in (1..Len(rows)) \ { i } }

\* the first title offered that is not the value of the row
FirstOffered(i) ==
    { allGroupsList[j] : j \in { j \in 1..Len(allGroupsList) :
        /\ allGroupsList[j] \in Offered(i) \ { rows[i] }
        /\ \A k \in 1..(j - 1) : allGroupsList[k] \notin Offered(i) \ { rows[i] } } }

\* the change listener of the select of row i, part_001:444-448: the user
\* has picked another title
selectChange(i, name) ==
    /\ Interactive
    /\ CanDraw
    /\ i \in 1..Len(rows)
    /\ name \in Offered(i) \ { rows[i] }
    /\ rows' = [ rows EXCEPT ![i] = name ]
    /\ UNCHANGED <<page, googleChartsReady>>
    /\ scatterUpdateChart(rows')
    /\ UNCHANGED <<loaderVars, lineVars>>

\* a click on "Add Group", part_001:534-545 and 384-456: the button is
\* disabled from AddButtonLimit rows on
addGroupClick ==
    /\ Interactive
    /\ Len(rows) < AddButtonLimit
    /\ Len(rows) - Len(SelectedOf(rows)) < MaxPlaceholders
    /\ rows' = Append(rows, emptyName)
    /\ UNCHANGED <<page, googleChartsReady, onLoadCallbacks, engineVars, loaderVars, lineVars>>

\* a click on "Remove Group" of row i, part_001:495-511: offered from two
\* rows on
removeGroupClick(i) ==
    /\ Interactive
    /\ CanDraw
    /\ Len(rows) >= 2
    /\ i \in 1..Len(rows)
    /\ rows' = [ j \in 1..(Len(rows) - 1) |-> IF j < i THEN rows[j] ELSE rows[j + 1] ]
    /\ UNCHANGED <<page, googleChartsReady>>
    /\ scatterUpdateChart(rows')
    /\ UNCHANGED <<loaderVars, lineVars>>

\* the change listener of the year select, part_001:614-617 (and of the
\* pollutant select, 620-623)
yearChange ==
    /\ Interactive
    /\ CanDraw
    /\ UNCHANGED <<page, rows, googleChartsReady>>
    /\ scatterUpdateChart(rows)
    /\ UNCHANGED <<loaderVars, lineVars>>

\* the resize listener, part_001:636-639
windowResize ==
    /\ Interactive
    /\ CanDraw
    /\ UNCHANGED <<page, rows, googleChartsReady>>
    /\ \E e \in { Engine } : drawChart(e, rows)
    /\ UNCHANGED <<loaderVars, lineVars>>

\* Google Charts has loaded: the callback of chart-renderer.js:12-15
googleChartsLoaded ==
    /\ ~googleChartsReady
    /\ googleChartsReady' = TRUE
    /\ UNCHANGED <<page, rows, onLoadCallbacks, engineVars, loaderVars, lineVars>>

\* then the callbacks of the draws in waiting, in the order they were
\* registered, chart-renderer.js:28-31
onLoadCallback ==
    /\ googleChartsReady
    /\ onLoadCallbacks # << >>
    /\ googleChartsReady' = TRUE
    /\ \E e \in { Engine } :
          drawScatterChart(e, Head(onLoadCallbacks), Tail(onLoadCallbacks))
    /\ UNCHANGED <<page, rows, loaderVars, lineVars>>

PageNext ==
    \/ \E groupNames \in UrlSelections : init(groupNames)
    \/ \E i \in { k \in 1..Len(rows) :
                      rows[k] = emptyName /\ \A j \in 1..(k - 1) : rows[j] # emptyName } :
          \E name \in FirstOffered(i) : selectChange(i, name)
    \/ addGroupClick
    \/ \E i \in { Len(rows) } \cup { k \in { 1 } : Len(rows) = 2 } : removeGroupClick(i)
    \/ yearChange
    \/ windowResize
    \/ googleChartsLoaded
    \/ onLoadCallback

SpecPage == Init /\ [][PageNext]_vars

-----------------------------------------------------------------------------
(* The shared data loader, shared-data-loader.js *)

\* a variant of the test of line 50 that never finds a load in progress
InFlightNever(cache) == FALSE

\* cache.isLoading && cache.loadPromise, shared-data-loader.js:50
InFlight(cache) == cache.isLoading /\ cache.loadPromise # NoPromise

\* the caller is not inside loadSharedData
Outside(c) == calls[c].pc \in { "idle", "returned", "threw" }

\* loadSharedData() up to its first await or its return,
\* shared-data-loader.js:40-60
loadSharedData(c) ==
    /\ Outside(c)
    /\ IF SharedDataCache.isLoaded
       THEN /\ calls' = [ calls EXCEPT ![c] = [ pc |-> "returned", promise |-> NoPromise ] ]
            /\ UNCHANGED <<SharedDataCache, promises>>
       ELSE IF InFlight(SharedDataCache)
       THEN /\ calls' = [ calls EXCEPT ![c] = [ pc |-> "waiting",
                                               promise |-> SharedDataCache.loadPromise ] ]
            /\ UNCHANGED <<SharedDataCache, promises>>
       ELSE /\ Len(promises) < MaxFetches
            /\ promises' = Append(promises, "pending")
            /\ SharedDataCache' = [ SharedDataCache EXCEPT !.isLoading = TRUE,
                                                          !.loadPromise = Len(promises) + 1 ]
            /\ calls' = [ calls EXCEPT ![c] = [ pc |-> "loading",
                                               promise |-> Len(promises) + 1 ] ]
    /\ UNCHANGED <<engineVars, pageVars, lineVars>>

\* loadDataFromSupabase() returns, shared-data-loader.js:91-107
loadDataFromSupabaseReturns(p) ==
    /\ p \in 1..Len(promises)
    /\ promises[p] = "pending"
    /\ promises' = [ promises EXCEPT ![p] = "fulfilled" ]
    /\ SharedDataCache' = [ SharedDataCache EXCEPT !.data = "loaded" ]
    /\ UNCHANGED <<calls, engineVars, pageVars, lineVars>>

\* loadDataFromSupabase() throws, shared-data-loader.js:77-89
loadDataFromSupabaseThrows(p) ==
    /\ p \in 1..Len(promises)
    /\ promises[p] = "pending"
    /\ promises' = [ promises EXCEPT ![p] = "rejected" ]
    /\ UNCHANGED <<SharedDataCache, calls, engineVars, pageVars, lineVars>>

\* a variant of loadResumes without the catch block of lines 64-68
loadResumesNoCatch(c) ==
    /\ calls[c].pc = "loading"
    /\ promises[calls[c].promise] # "pending"
    /\ IF promises[calls[c].promise] = "fulfilled"
       THEN /\ SharedDataCache' = [ SharedDataCache EXCEPT !.isLoaded = TRUE,
                                                          !.isLoading = FALSE ]
            /\ calls' = [ calls EXCEPT ![c].pc = "returned" ]
       ELSE /\ UNCHANGED SharedDataCache
            /\ calls' = [ calls EXCEPT ![c].pc = "threw" ]
    /\ UNCHANGED <<promises, engineVars, pageVars, lineVars>>

\* the call that started the load goes on after its await,
\* shared-data-loader.js:60-68
loadResumes(c) ==
    /\ calls[c].pc = "loading"
    /\ promises[calls[c].promise] # "pending"
    /\ IF promises[calls[c].promise] = "fulfilled"
       THEN /\ SharedDataCache' = [ SharedDataCache EXCEPT !.isLoaded = TRUE,
                                                          !.isLoading = FALSE ]
            /\ calls' = [ calls EXCEPT ![c].pc = "returned" ]
       ELSE /\ SharedDataCache' = [ SharedDataCache EXCEPT !.isLoading = FALSE,
                                                          !.loadPromise = NoPromise ]
            /\ calls' = [ calls EXCEPT ![c].pc = "threw" ]
    /\ UNCHANGED <<promises, engineVars, pageVars, lineVars>>

\* a call that waited for the load in progress goes on after its await,
\* shared-data-loader.js:52
waitResumes(c) ==
    /\ calls[c].pc = "waiting"
    /\ promises[calls[c].promise] # "pending"
    /\ calls' = [ calls EXCEPT ![c].pc =
                    IF promises[calls[c].promise] = "fulfilled" THEN "returned" ELSE "threw" ]
    /\ UNCHANGED <<SharedDataCache, promises, engineVars, pageVars, lineVars>>

LoaderNext ==
    \/ \E c \in Callers : loadSharedData(c)
    \/ \E p \in 1..MaxFetches : loadDataFromSupabaseReturns(p)
    \/ \E p \in 1..MaxFetches : loadDataFromSupabaseThrows(p)
    \/ \E c \in Callers : loadResumes(c)
    \/ \E c \in Callers : waitResumes(c)

SpecLoader == Init /\ [][LoaderNext]_vars

-----------------------------------------------------------------------------
(* The shared data loader with clearCache() *)

\* clearCache(), shared-data-loader.js:199-211; the call is recorded with, in
\* size, the number of fetches started before it
clearCache ==
    /\ SharedDataCache' = [ isLoaded |-> FALSE, isLoading |-> FALSE,
                            loadPromise |-> NoPromise, data |-> "empty" ]
    /\ lastCall' = [ Call("clearCache", emptyName, undefinedValue, undefinedValue)
                       EXCEPT !.size = Len(promises) ]
    /\ UNCHANGED <<promises, calls, pageVars, lineVars>>
    /\ UNCHANGED <<colorCache, availableColors, overridden, returned, twin>>

ClearNext ==
    \/ \E c \in Callers : loadSharedData(c)
    \/ \E p \in 1..MaxFetches : loadDataFromSupabaseReturns(p)
    \/ \E p \in 1..MaxFetches : loadDataFromSupabaseThrows(p)
    \/ \E c \in Callers : loadResumes(c)
    \/ \E c \in Callers : waitResumes(c)
    \/ clearCache

SpecClear == Init /\ [][ClearNext]_vars

-----------------------------------------------------------------------------
(* The line chart's updateChart() and its retries, example_main.js:635-699 *)

\* the largest value of the retry counter that still schedules a retry
RetryLimit == 20

\* what the selects of the line chart can hold: nothing, everything but one
\* of the four selections, or a pollutant, both years and the first k groups
SelectionStates ==
    { NothingSelected,
      [ pollutant |-> FALSE, startYear |-> TRUE, endYear |-> TRUE,
        groups |-> Len(distinctPalette) ],
      [ pollutant |-> TRUE, startYear |-> FALSE, endYear |-> TRUE,
        groups |-> Len(distinctPalette) ],
      [ pollutant |-> TRUE, startYear |-> TRUE, endYear |-> FALSE,
        groups |-> Len(distinctPalette) ],
      [ pollutant |-> TRUE, startYear |-> TRUE, endYear |-> TRUE, groups |-> 0 ] }
    \cup { [ pollutant |-> TRUE, startYear |-> TRUE, endYear |-> TRUE, groups |-> k ] :
             k \in GroupCounts }

\* !pollutant || !startYear || !endYear || !selectedGroups.length, line 658
Missing(sel) ==
    ~sel.pollutant \/ ~sel.startYear \/ ~sel.endYear \/ sel.groups = 0

\* a variant of the test of line 666 that never gives up
GivesUpNever(count) == FALSE

\* the else branch of window.__updateRetryCount <= 20, line 666
GivesUp(count) == ~(count <= RetryLimit)

\* updateChart() from line 652 on, with pending timers left once the timer
\* that made the call, if any, is spent: with a selection missing it counts
\* the retry and schedules itself or gives up; else it resets the counter
\* and draws
updateChartBody(pending) ==
    IF Missing(selections)
    THEN /\ IF GivesUp(updateRetryCount + 1)
            THEN /\ updateRetryCount' = 0
                 /\ timeouts' = pending
            ELSE /\ updateRetryCount' = updateRetryCount + 1
                 /\ timeouts' = pending + 1
         /\ UNCHANGED engineVars
    ELSE /\ updateRetryCount' = 0
         /\ timeouts' = pending
         /\ DrawLineChart(selections.groups)

\* updateChart(), example_main.js:635-699: before Google Charts is ready the
\* call is registered to run on load
lineUpdateChart(pending, waiting) ==
    IF ~lineChartsReady'
    THEN /\ lineCallbacks' = waiting + 1
         /\ timeouts' = pending
         /\ UNCHANGED <<updateRetryCount, engineVars>>
    ELSE /\ lineCallbacks' = waiting
         /\ updateChartBody(pending)

\* a listener of the line chart calls updateChart(), e.g. example_main.js:172-180
updateChartEvent ==
    /\ updateCalls < MaxUpdateCalls
    /\ updateCalls' = updateCalls + 1
    /\ UNCHANGED <<selections, lineChartsReady>>
    /\ lineUpdateChart(timeouts, lineCallbacks)
    /\ UNCHANGED <<pageVars, loaderVars>>

\* a timer of setTimeout(updateChart, 75) fires, example_main.js:667
timeoutFires ==
    /\ timeouts > 0
    /\ UNCHANGED <<selections, lineChartsReady, updateCalls>>
    /\ lineUpdateChart(timeouts - 1, lineCallbacks)
    /\ UNCHANGED <<pageVars, loaderVars>>

\* Google Charts has loaded: the callback of example_main.js:18-20
lineChartsLoaded ==
    /\ ~lineChartsReady
    /\ lineChartsReady' = TRUE
    /\ UNCHANGED <<updateRetryCount, timeouts, selections, updateCalls, lineCallbacks>>
    /\ UNCHANGED <<engineVars, pageVars, loaderVars>>

\* then the callbacks registered by updateChart, example_main.js:645-648
lineOnLoadCallback ==
    /\ lineChartsReady
    /\ lineCallbacks > 0
    /\ lineChartsReady' = TRUE
    /\ UNCHANGED <<selections, updateCalls>>
    /\ lineUpdateChart(timeouts, lineCallbacks - 1)
    /\ UNCHANGED <<pageVars, loaderVars>>

\* the user or the URL parsing changes what the selects hold
selectionsChange(sel) ==
    /\ sel # selections
    /\ selections' = sel
    /\ UNCHANGED <<updateRetryCount, timeouts, updateCalls, lineChartsReady, lineCallbacks>>
    /\ UNCHANGED <<engineVars, pageVars, loaderVars>>

RetryNext ==
    \/ updateChartEvent
    \/ timeoutFires
    \/ lineChartsLoaded
    \/ lineOnLoadCallback
    \/ \E sel \in SelectionStates : selectionsChange(sel)

SpecRetry == Init /\ [][RetryNext]_vars

\* a timer that is set fires: the event loop runs every timer task
SpecRetryFair == SpecRetry /\ WF_vars(timeoutFires)

-----------------------------------------------------------------------------
(* Properties *)

Injective(f) == \A a, b \in DOMAIN f : a # b => f[a] # f[b]

\* the entries last written by getColorForGroup
GetWritten == (DOMAIN colorCache) \ overridden

\* C1. Stability: once getColorForGroup(n) has returned a value for a
\* non-empty name n, every later getColorForGroup(n) returns the same value,
\* whatever other calls happen in between, as long as no reset (alone or in
\* updateChart) and no setColorForGroup(n, ...) happens in between.
Stability ==
    [][ \A n \in DOMAIN returned :
          (lastCall'.op = "get" /\ lastCall'.name = n) => lastCall'.ret = returned[n] ]_vars

\* Power Station A is asked again after Power Station B and X were given
\* their colours: B did not get the category colour, so A held it before
StabilityWitness ==
    /\ lastCall.op = "get" /\ lastCall.name = PowerStationA
    /\ lastCall.ret = "#3CB44B"
    /\ PowerStationB \in DOMAIN returned /\ returned[PowerStationB] = "#E6194B"
    /\ SeriesX \in DOMAIN returned /\ returned[SeriesX] = "#FFE119"

\* C2. No collision under 10: when only getColorForGroup calls happened since
\* the cache was empty, for at most 10 distinct non-empty names, the values
\* returned are pairwise different.
NoCollisionUnder10 ==
    (overridden = {} /\ Cardinality(DOMAIN returned) <= 10) => Injective(returned)

\* ten names, category names after nine plain ones
NoCollisionWitness ==
    /\ overridden = {}
    /\ Cardinality(DOMAIN returned) = 10
    /\ PowerStationA \in DOMAIN returned
    /\ Group(9) \in DOMAIN returned

\* C3 as stated. No two names of the cache hold the same colour unless the
\* cache tracks more than 10 names.
CacheUniqueUnlessExhausted ==
    KeyCount(colorCache) <= 10 => Injective(colorCache)

\* C3 as amended. No two entries last written by getColorForGroup hold the
\* same colour unless the cache tracks more than 10 names.
GetWrittenUnique ==
    KeyCount(colorCache) <= 10 =>
        \A a, b \in GetWritten : a # b => colorCache[a] # colorCache[b]

\* an override duplicates the colour of an entry written by getColorForGroup
GetWrittenUniqueWitness ==
    /\ KeyCount(colorCache) <= 10
    /\ { PowerStationA, PowerStationB } \subseteq GetWritten
    /\ SeriesX \in overridden
    /\ colorCache[SeriesX] = colorCache[PowerStationA]

\* C4. Every value stored by getColorForGroup is a palette colour; only an
\* entry last written by setColorForGroup may hold another colour.
GetWrittenInPalette ==
    \A k \in GetWritten : colorCache[k] \in PaletteColors

\* an exhausted palette, an override outside the palette, a name stored after both
GetWrittenInPaletteWitness ==
    /\ KeyCount(colorCache) > 10
    /\ SeriesX \in overridden /\ colorCache[SeriesX] \notin PaletteColors
    /\ PowerStationA \in GetWritten

\* C5. Category preference: the first getColorForGroup call on an empty
\* cache, with a name whose lowercased form contains a category key, returns
\* a colour designated for such a key; "Power Station A" returns #3CB44B and
\* "Gas Boilers" returns #4363D8.
CategoryPreference ==
    (lastCall.op = "get" /\ DOMAIN colorCache = { lastCall.name }) =>
        /\ lastCall.name = PowerStationA => lastCall.ret = "#3CB44B"
        /\ lastCall.name = GasBoilers => lastCall.ret = "#4363D8"
        /\ \A k \in 1..Len(categoryKeys) :
             includes(toLowerCase(lastCall.name), categoryKeys[k]) =>
                 \E j \in 1..Len(categoryKeys) :
                    /\ includes(toLowerCase(lastCall.name), categoryKeys[j])
                    /\ lastCall.ret = categoryBaseColor[j]

CategoryPreferenceWitness ==
    /\ lastCall.op = "get" /\ lastCall.name = GasBoilers
    /\ colorCache = [ n \in { GasBoilers } |-> "#4363D8" ]
    /\ lastCall.ret = "#4363D8"

\* a call that stores a new name whose category colour is already held
CategoryCollision(n) ==
    /\ lastCall'.op = "get" /\ lastCall'.name = n
    /\ n \notin DOMAIN colorCache /\ n \in DOMAIN colorCache'
    /\ IsTruthy(BaseColor(n))
    /\ BaseColor(n) \in ObjectValues(colorCache)

\* the value returned is a palette colour that no entry held before the call
ReturnsUnused ==
    /\ lastCall'.ret \in PaletteColors
    /\ lastCall'.ret \notin ObjectValues(colorCache)

\* C6 as stated. A new name whose category colour is already taken gets a
\* different palette colour that no cache entry holds at that moment.
CollisionFallbackAlways ==
    [][ \A n \in NonEmptyNames :
          CategoryCollision(n) => (lastCall'.ret # BaseColor(n) /\ ReturnsUnused) ]_vars

\* C6 as amended. With only "Power Station A" cached, holding #3CB44B,
\* "Power Station B" gets another palette colour that no entry holds; in
\* general a new name whose category colour is already taken gets a different
\* palette colour that no entry holds, provided some palette colour is held
\* by no entry.
CollisionFallback ==
    [][ /\ (colorCache = EmptyCache /\ lastCall'.op = "get"
              /\ lastCall'.name = PowerStationA) => lastCall'.ret = "#3CB44B"
        /\ (colorCache = [ n \in { PowerStationA } |-> "#3CB44B" ]
              /\ lastCall'.op = "get" /\ lastCall'.name = PowerStationB)
             => (lastCall'.ret # "#3CB44B" /\ ReturnsUnused)
        /\ \A n \in NonEmptyNames :
             (CategoryCollision(n) /\ PaletteColors \ ObjectValues(colorCache) # {})
                => (lastCall'.ret # BaseColor(n) /\ ReturnsUnused) ]_vars

CollisionFallbackWitness ==
    /\ lastCall.op = "get" /\ lastCall.name = PowerStationB
    /\ colorCache = [ n \in { PowerStationA, PowerStationB } |->
                        IF n = PowerStationA THEN "#3CB44B" ELSE "#E6194B" ]
    /\ lastCall.ret = "#E6194B"

ResetClears ==
    lastCall.op = "reset" => CacheSnapshot(colorCache) = EmptyCache

\* the reset erased more than 10 names, overrides among them
ResetClearsWitness ==
    /\ lastCall.op = "reset"
    /\ lastCall.size > 10 /\ lastCall.forced > 0
    /\ colorCache = EmptyCache

\* C9. Reset erases history: the calls since the last reset return the same
\* values and leave the same cache as on a freshly loaded engine.
HistoryErased ==
    /\ colorCache = twin.cache
    /\ availableColors = twin.avail
    /\ lastCall.op \in { "get", "set", "cache", "updateChart" } => lastCall.ret = twin.ret

\* after a reset that erased entries: an override, then names given colours
HistoryErasedWitness ==
    /\ twin.erased
    /\ lastCall.op = "get" /\ lastCall.name = PowerStationB
    /\ SeriesX \in overridden
    /\ KeyCount(colorCache) = 3

\* C10. Empty-name sentinel: getColorForGroup("") and
\* getColorForGroup(undefined) return #888888 and leave the cache unchanged.
EmptyNameSentinel ==
    [][ (lastCall'.op = "get" /\ lastCall'.name \in { emptyName, undefinedName })
          => (lastCall'.ret = "#888888" /\ colorCache' = colorCache) ]_vars

\* undefined is passed while the cache holds more than 10 names and an
\* override under the empty key
EmptyNameSentinelWitness ==
    /\ lastCall.op = "get" /\ lastCall.name = undefinedName
    /\ lastCall.ret = "#888888"
    /\ emptyName \in overridden
    /\ KeyCount(colorCache) > 10


\* the number of names that uses up the palette, plus one
Eleventh == Len(distinctPalette) + 1

\* C11. 11th-name wraparound: on a just reset engine that is given 11
\* distinct non-empty names by getColorForGroup, the 11th name is returned
\* palette[0] = #E6194B, whatever the 11 names are.
EleventhNameWraparound ==
    (lastCall.op = "updateChart" /\ Len(lastCall.ret) = Eleventh)
        => lastCall.ret[Eleventh] = PaletteAt(0)

CaseSensitiveKey ==
    [][ /\ (/\ colorCache = EmptyCache
            /\ lastCall'.op = "get"
            /\ lastCall'.name = EcodesignUpper)
           => /\ lastCall'.ret = "#F58231"
              /\ DOMAIN colorCache' = { EcodesignUpper }
              /\ colorCache'[EcodesignUpper] = lastCall'.ret
        /\ (/\ EcodesignUpper \in DOMAIN colorCache
            /\ EcodesignLower \notin DOMAIN colorCache
            /\ lastCall'.op = "get"
            /\ lastCall'.name = EcodesignLower)
           => /\ DOMAIN colorCache' = (DOMAIN colorCache) \cup { EcodesignLower }
              /\ KeyCount(colorCache') = KeyCount(colorCache) + 1
              /\ colorCache'[EcodesignLower] = lastCall'.ret
              /\ colorCache'[EcodesignUpper] = colorCache[EcodesignUpper]
              /\ lastCall'.ret # colorCache[EcodesignUpper] ]_vars

\* "ECODESIGN Stove" then "ecodesign stove" have been given colours on an
\* empty engine: two entries, the first one orange
CaseSensitiveKeyWitness ==
    /\ lastCall.op = "get"
    /\ lastCall.name = EcodesignLower
    /\ DOMAIN colorCache = { EcodesignUpper, EcodesignLower }
    /\ colorCache[EcodesignUpper] = "#F58231"
    /\ colorCache[EcodesignLower] = PaletteAt(0)


\* C14. getColorCache() returns the current name-to-colour assignments, and
\* adding, changing or deleting entries of the object it returned changes
\* nothing a later call depends on: colorCache and availableColors stay as
\* they were, so a later getColorForGroup of a name returned before returns
\* the same colour and a later getColorCache() returns the same content.
SnapshotIsolated ==
    [][ /\ lastCall'.op = "cache"
           => /\ lastCall'.ret = colorCache
              /\ lastCall'.ret = colorCache'
        /\ lastCall'.op = "mutate"
           => /\ colorCache' = colorCache
              /\ availableColors' = availableColors
        /\ \A n \in DOMAIN returned :
             (lastCall.op = "mutate" /\ lastCall'.op = "get" /\ lastCall'.name = n)
                => lastCall'.ret = returned[n] ]_vars

\* the caller has deleted a cached name from the object returned and added a
\* name that is not cached
SnapshotIsolatedWitness ==
    /\ lastCall.op = "mutate"
    /\ PowerStationA \in DOMAIN colorCache
    /\ PowerStationA \notin DOMAIN lastCall.ret
    /\ SeriesX \notin DOMAIN colorCache
    /\ SeriesX \in DOMAIN lastCall.ret
    /\ lastCall.ret[SeriesX] = colorCache[PowerStationA]


\* C15. Totality: every call returns, and what getColorForGroup returns is a
\* colour token: a palette colour, the colour setColorForGroup last set for
\* that name, or the sentinel #888888.
ReturnsColorToken ==
    lastCall.op = "get"
        => \/ lastCall.ret \in PaletteColors
           \/ lastCall.ret = SentinelColor
           \/ /\ ToPropertyKey(lastCall.name) \in overridden
              /\ lastCall.ret = colorCache[ToPropertyKey(lastCall.name)]


\* the palette colours no cache entry holds
FreeColors == PaletteColors \ ObjectValues(colorCache)

\* the free palette colour of lowest index
LowestFree ==
    PaletteAt(CHOOSE i \in 0..(Len(distinctPalette) - 1) :
                /\ PaletteAt(i) \in FreeColors
                /\ \A j \in 0..(i - 1) : PaletteAt(j) \notin FreeColors)

\* name has no entry in the cache and has no category colour, or one that
\* some entry holds
NeedsFallback(name) ==
    /\ ~IsFalsyName(name)
    /\ name \notin DOMAIN colorCache
    /\ \/ ~IsTruthy(BaseColor(name))
       \/ BaseColor(name) \in ObjectValues(colorCache)

\* C19. Fallback order: when a new non-empty name has no category match, or
\* its category colour is held by some cache entry, and some palette colour
\* is held by no cache entry, getColorForGroup returns the free palette
\* colour of lowest index.
FallbackOrder ==
    [][ \A name \in Names :
          (/\ NeedsFallback(name)
           /\ FreeColors # {}
           /\ lastCall'.op = "get"
           /\ lastCall'.name = name)
             => lastCall'.ret = LowestFree ]_vars

\* C19 for the names that colorCache[name] does not find on Object.prototype
FallbackOrderOwn ==
    [][ \A name \in Names :
          (/\ NeedsFallback(name)
           /\ ~IsTruthy(InheritedValue(name))
           /\ FreeColors # {}
           /\ lastCall'.op = "get"
           /\ lastCall'.name = name)
             => lastCall'.ret = LowestFree ]_vars

\* C20. Exhaustion fallback: when every palette colour is held by some cache
\* entry, getColorForGroup for a new non-empty name returns palette[n mod 10],
\* n the number of cache entries before the call, overrides included,
\* whatever category the name matches, and stores the entry.
ExhaustionFallback ==
    [][ \A name \in Names :
          (/\ ~IsFalsyName(name)
           /\ name \notin DOMAIN colorCache
           /\ FreeColors = {}
           /\ lastCall'.op = "get"
           /\ lastCall'.name = name)
             => /\ lastCall'.ret = PaletteAt(KeyCount(colorCache) % 10)
                /\ name \in DOMAIN colorCache'
                /\ colorCache'[name] = lastCall'.ret
                /\ KeyCount(colorCache') = KeyCount(colorCache) + 1 ]_vars

\* C20 for the names that colorCache[name] does not find on Object.prototype
ExhaustionFallbackOwn ==
    [][ \A name \in Names :
          (/\ ~IsFalsyName(name)
           /\ name \notin DOMAIN colorCache
           /\ ~IsTruthy(InheritedValue(name))
           /\ FreeColors = {}
           /\ lastCall'.op = "get"
           /\ lastCall'.name = name)
             => /\ lastCall'.ret = PaletteAt(KeyCount(colorCache) % 10)
                /\ name \in DOMAIN colorCache'
                /\ colorCache'[name] = lastCall'.ret
                /\ KeyCount(colorCache') = KeyCount(colorCache) + 1 ]_vars

\* C16. Per-redraw protocol: every chart redraw resets the colour system
\* once, before any colour lookup of that redraw, and then looks each series
\* up once in the caller's order; no redraw, a draw deferred until Google
\* Charts has loaded included, assigns colours on a cache left over from an
\* earlier redraw: the cache is empty at the first lookup of every draw.
DrawStartsOnResetCache ==
    lastCall.op = "draw" => lastCall.size = 0

\* C17. Group cap: in every reachable state of the scatter chart page the
\* number of group selector rows, and so the number of series of one redraw,
\* never exceeds 10.
GroupCap ==
    Len(rows) <= 10

\* the promises of loadDataFromSupabase() in the state st
PromisesIn(ps, st) == { p \in 1..Len(ps) : ps[p] = st }

\* c enters loadSharedData in this step
Enters(c) == Outside(c) /\ calls'[c] # calls[c]

\* C18. The shared data loader prevents duplicate loading: while one load
\* is in flight every further call waits on that same load and starts no
\* fetch; once a load has succeeded every later call gets the cached data,
\* at once or from the promise of that load, and starts no fetch; so at most
\* one fetch is in flight and at most one fetch ever succeeds.
NoDuplicateLoad ==
    [][ /\ \A c \in Callers :
             Enters(c) =>
                /\ \A p \in PromisesIn(promises, "pending") :
                      /\ promises' = promises
                      /\ calls'[c] = [ pc |-> "waiting", promise |-> p ]
                /\ \A p \in PromisesIn(promises, "fulfilled") :
                      /\ promises' = promises
                      /\ \/ calls'[c].pc = "returned"
                         \/ calls'[c] = [ pc |-> "waiting", promise |-> p ]
                /\ SharedDataCache.isLoaded =>
                      calls'[c] = [ pc |-> "returned", promise |-> NoPromise ]
        /\ Cardinality(PromisesIn(promises', "pending")) <= 1
        /\ Cardinality(PromisesIn(promises', "fulfilled")) <= 1
        /\ PromisesIn(promises', "fulfilled") # {} =>
              PromisesIn(promises', "pending") = {} ]_vars

\* two calls made while the load was in flight have waited on its promise
\* and returned with the call that started it still behind its await; the
\* one fetch of the page
NoDuplicateLoadWitness ==
    /\ promises = << "fulfilled" >>
    /\ \E a \in Callers :
          /\ calls[a] = [ pc |-> "loading", promise |-> 1 ]
          /\ \A c \in Callers \ { a } : calls[c] = [ pc |-> "returned", promise |-> 1 ]

\* the category keys the lowercased name contains, as indices of categoryKeys
MatchingKeys(name) ==
    { k \in 1..Len(categoryKeys) : includes(toLowerCase(name), categoryKeys[k]) }

\* C21. Category priority: when the lowercased name contains more than one
\* category key, the candidate colour is that of the first matching key in
\* the order ecodesign, fireplace, gas, power, road: a new name gets that
\* colour whenever no cache entry holds it, "Road Gas" gets the gas colour
\* #4363D8 on an empty cache, and on an empty cache no name gets the colour
\* of a later key.
CategoryPriority ==
    [][ \A name \in FirstNames :
          (/\ lastCall'.op = "get" /\ lastCall'.name = name
           /\ ToPropertyKey(name) \notin DOMAIN colorCache
           /\ ~IsTruthy(InheritedValue(ToPropertyKey(name)))
           /\ ~IsFalsyName(name))
             => /\ \A k \in MatchingKeys(name) :
                     ((\A j \in MatchingKeys(name) : k <= j)
                        /\ categoryBaseColor[k] \notin ObjectValues(colorCache))
                       => lastCall'.ret = categoryBaseColor[k]
                /\ (colorCache = EmptyCache /\ name = RoadGas)
                       => lastCall'.ret = "#4363D8"
                /\ colorCache = EmptyCache =>
                     \A k \in MatchingKeys(name) :
                        (\E j \in MatchingKeys(name) : j < k)
                           => lastCall'.ret # categoryBaseColor[k] ]_vars

\* "Road Gas", which contains the keys gas and road, is the first name after
\* a reset and holds the gas colour
CategoryPriorityWitness ==
    /\ lastCall.op = "get" /\ lastCall.name = RoadGas
    /\ Cardinality(MatchingKeys(RoadGas)) = 2
    /\ colorCache = [ n \in { RoadGas } |-> "#4363D8" ]
    /\ twin.erased

\* a call that stores a new name that matches a category
NewCategoryName(name) ==
    /\ lastCall'.op = "get" /\ lastCall'.name = name
    /\ ~IsFalsyName(name)
    /\ ToPropertyKey(name) \notin DOMAIN colorCache
    /\ ~IsTruthy(InheritedValue(ToPropertyKey(name)))
    /\ MatchingKeys(name) # {}

\* the colour of the first category key of the name, colors.js:22-26
CategoryColor(name) ==
    categoryBaseColor[CHOOSE k \in MatchingKeys(name) : \A j \in MatchingKeys(name) : k <= j]

\* C22 as stated. Collision check: a new non-empty name that matches a
\* category receives its category colour if and only if no entry of the
\* cache, written by getColorForGroup or by setColorForGroup, holds that
\* colour, however many names are cached.
CollisionCheckAlways ==
    [][ \A name \in Names :
          NewCategoryName(name) =>
             (lastCall'.ret = CategoryColor(name)
                <=> CategoryColor(name) \notin ObjectValues(colorCache)) ]_vars

\* C22 as amended. A new non-empty name that matches a category receives
\* its category colour if no entry of the cache, written by getColorForGroup
\* or by setColorForGroup, holds that colour; if an entry holds it and some
\* palette colour is held by no entry, the name receives another colour.
CollisionCheck ==
    [][ \A name \in Names :
          NewCategoryName(name) =>
             /\ CategoryColor(name) \notin ObjectValues(colorCache)
                   => lastCall'.ret = CategoryColor(name)
             /\ (CategoryColor(name) \in ObjectValues(colorCache) /\ FreeColors # {})
                   => lastCall'.ret # CategoryColor(name) ]_vars

\* only an override holds the power colour, and "Power Station A" was given
\* another colour
CollisionCheckWitness ==
    /\ lastCall.op = "get" /\ lastCall.name = PowerStationA
    /\ lastCall.ret # "#3CB44B"
    /\ SeriesX \in overridden /\ colorCache[SeriesX] = "#3CB44B"
    /\ \A k \in GetWritten : colorCache[k] # "#3CB44B"

\* the entries of cache other than that of key are those of before, unchanged
OthersUnchanged(before, after, key) ==
    /\ (DOMAIN after) \ { key } = (DOMAIN before) \ { key }
    /\ \A k \in (DOMAIN before) \ { key } : after[k] = before[k]

\* C23. Effect of getColorForGroup on the cache: a call with a non-empty
\* name that is not yet cached adds exactly one entry, keyed by that name and
\* holding the returned colour, and leaves every other entry unchanged; a
\* call with an already cached name leaves the cache unchanged.
GetEffect ==
    [][ \A name \in Names :
          (lastCall'.op = "get" /\ lastCall'.name = name /\ ~IsFalsyName(name)) =>
             IF name \in DOMAIN colorCache
             THEN colorCache' = colorCache
             ELSE /\ name \in DOMAIN colorCache'
                  /\ colorCache'[name] = lastCall'.ret
                  /\ KeyCount(colorCache') = KeyCount(colorCache) + 1
                  /\ OthersUnchanged(colorCache, colorCache', name) ]_vars

\* C23 for the names that colorCache[name] does not find on Object.prototype
GetEffectOwn ==
    [][ \A name \in Names :
          (/\ lastCall'.op = "get" /\ lastCall'.name = name /\ ~IsFalsyName(name)
           /\ ~IsTruthy(InheritedValue(name))) =>
             IF name \in DOMAIN colorCache
             THEN colorCache' = colorCache
             ELSE /\ name \in DOMAIN colorCache'
                  /\ colorCache'[name] = lastCall'.ret
                  /\ KeyCount(colorCache') = KeyCount(colorCache) + 1
                  /\ OthersUnchanged(colorCache, colorCache', name) ]_vars

\* C24. Effect of setColorForGroup(name, colour): it creates or overwrites
\* exactly the entry of name with the given colour, whatever category the
\* name matches and whether or not another entry holds the colour, and
\* leaves the entries of all other names unchanged.
SetEffect ==
    [][ \A name \in OverrideNames :
          (lastCall'.op = "set" /\ lastCall'.name = name) =>
             /\ name \in DOMAIN colorCache'
             /\ colorCache'[name] = lastCall'.color
             /\ OthersUnchanged(colorCache, colorCache', name) ]_vars

\* C24 for the names whose assignment Object.prototype does not intercept
SetEffectOwn ==
    [][ \A name \in OverrideNames \ { protoKey } :
          (lastCall'.op = "set" /\ lastCall'.name = name) =>
             /\ name \in DOMAIN colorCache'
             /\ colorCache'[name] = lastCall'.color
             /\ OthersUnchanged(colorCache, colorCache', name) ]_vars

\* C25. The palette (10 pairwise distinct colours), the category rules and
\* the availableColors list are constant: after any sequence of
\* resetColorSystem, getColorForGroup, getColorCache and setColorForGroup
\* calls availableColors equals the full palette in palette order, the
\* palette has its 10 pairwise distinct colours and every category rule
\* designates the palette colour of its declaration.
PaletteConstant ==
    /\ availableColors = distinctPalette
    /\ Len(distinctPalette) = 10
    /\ Injective(distinctPalette)
    /\ availableColors =
         << "#E6194B", "#3CB44B", "#FFE119", "#4363D8", "#F58231",
            "#911EB4", "#46F0F0", "#F032E6", "#BCF60C", "#FABEBE" >>
    /\ categoryBaseColor = << "#F58231", "#E6194B", "#4363D8", "#3CB44B", "#46F0F0" >>

\* the four operations have been called: a reset has erased entries, an
\* override is stored, getColorForGroup has stored a name and getColorCache
\* has returned the cache
PaletteConstantWitness ==
    /\ twin.erased
    /\ SeriesX \in overridden
    /\ PowerStationA \in GetWritten
    /\ lastCall.op = "cache"
    /\ lastCall.ret = colorCache

ClearCacheEffective ==
    /\ lastCall.op = "clearCache" =>
          ((SharedDataCache.isLoaded \/ SharedDataCache.data # "empty") =>
              \E p \in (lastCall.size + 1)..Len(promises) : promises[p] = "fulfilled")
    /\ Cardinality(PromisesIn(promises, "pending")) <= 1

\* the first half of C27 alone: loaded or non-empty only through a load
\* started after the last clearCache()
ClearCacheStaysCleared ==
    lastCall.op = "clearCache" =>
        ((SharedDataCache.isLoaded \/ SharedDataCache.data # "empty") =>
            \E p \in (lastCall.size + 1)..Len(promises) : promises[p] = "fulfilled")

\* the second half of C27 alone
OneFetchInFlight ==
    Cardinality(PromisesIn(promises, "pending")) <= 1

\* the loader as a failed load leaves it
Unloaded(cache) ==
    /\ ~cache.isLoaded
    /\ ~cache.isLoading
    /\ cache.loadPromise = NoPromise

\* C28. Failure handling of the shared data loader: when the fetch fails,
\* the error is thrown to the call that started it and to every call waiting
\* on the same load; the starting call leaves the loader with isLoaded =
\* false, isLoading = false, loadPromise = null and no data; getCachedData()
\* throws (isLoaded is false) as long as no fetch has succeeded; and a later
\* loadSharedData() call starts a new fetch.
FailureHandling ==
    [][ /\ \A c \in Callers :
             /\ (calls[c].pc = "loading" /\ calls'[c] # calls[c]
                   /\ promises[calls[c].promise] = "rejected")
                  => /\ calls'[c].pc = "threw"
                     /\ Unloaded(SharedDataCache')
                     /\ SharedDataCache'.data = "empty"
             /\ (calls[c].pc = "waiting" /\ calls'[c] # calls[c]
                   /\ promises[calls[c].promise] = "rejected")
                  => calls'[c].pc = "threw"
             /\ calls'[c].pc = "threw" => promises'[calls'[c].promise] = "rejected"
             /\ (Enters(c) /\ Unloaded(SharedDataCache)
                   /\ PromisesIn(promises, "rejected") # {})
                  => /\ promises' = Append(promises, "pending")
                     /\ calls'[c] = [ pc |-> "loading", promise |-> Len(promises') ]
        /\ PromisesIn(promises', "fulfilled") = {} =>
              (~SharedDataCache'.isLoaded /\ SharedDataCache'.data = "empty") ]_vars

\* the first fetch has failed: the call that started it and a call that
\* waited on it have thrown, the loader was left unloaded and a later call
\* has started the second fetch
FailureHandlingWitness ==
    /\ promises = << "rejected", "pending" >>
    /\ \E a, b, c \in Callers :
          /\ a # b
          /\ calls[a] = [ pc |-> "threw", promise |-> 1 ]
          /\ calls[b] = [ pc |-> "threw", promise |-> 1 ]
          /\ calls[c] = [ pc |-> "loading", promise |-> 2 ]
    /\ ~SharedDataCache.isLoaded

\* this step is an updateChart() call that got past the Google Charts test
\* of line 643
RunsUpdateChart ==
    /\ lineChartsReady'
    /\ \/ updateCalls' # updateCalls
       \/ lineCallbacks' # lineCallbacks
       \/ timeouts' # timeouts
       \/ updateRetryCount' # updateRetryCount

\* the timers this step has spent: one if a timer made the call
TimersSpent ==
    IF updateCalls' = updateCalls /\ lineCallbacks' = lineCallbacks THEN 1 ELSE 0

\* C29. Bounded retry of the line chart's updateChart: while pollutant, start
\* year, end year or groups are missing, updateChart re-schedules itself
\* without drawing and without resetting the colour system; when the retry
\* counter exceeds 20 it stops re-scheduling and sets the counter back to 0;
\* once the selections are ready the counter is set to 0 and the chart is
\* drawn on a reset colour system; the counter never stays above 20; and
\* retrying terminates, also when several chains share the counter: from
\* some moment on no retry is pending.
BoundedRetry ==
    /\ [][ /\ RunsUpdateChart =>
                IF ~selections.pollutant \/ ~selections.startYear
                      \/ ~selections.endYear \/ selections.groups = 0
                THEN /\ colorCache' = colorCache
                     /\ availableColors' = availableColors
                     /\ lastCall'.op = lastCall.op
                     /\ IF updateRetryCount + 1 <= 20
                        THEN /\ updateRetryCount' = updateRetryCount + 1
                             /\ timeouts' = timeouts - TimersSpent + 1
                        ELSE /\ updateRetryCount' = 0
                             /\ timeouts' = timeouts - TimersSpent
                ELSE /\ updateRetryCount' = 0
                     /\ timeouts' = timeouts - TimersSpent
                     /\ lastCall'.op = "updateChart"
                     /\ KeyCount(colorCache') = selections.groups
           /\ updateRetryCount' \in 0..20 ]_vars
    /\ <>[](timeouts = 0)

\* two chains of retries, started by two calls with nothing selected, have
\* shared the counter; both have given up without a draw and the counter is
\* back at 0
BoundedRetryWitness ==
    /\ updateCalls >= 2
    /\ lineChartsReady /\ lineCallbacks = 0
    /\ selections = NothingSelected
    /\ lastCall.op = "none"
    /\ timeouts = 0
    /\ updateRetryCount = 0

====
